---------------------------- MODULE Spec2Model ----------------------------
(***************************************************************************)
(* gofast.tools.funcutils.memoize: a memoizing call cache with an optional *)
(* size limit, an eviction policy (LRU / FIFO) and an optional lock.       *)
(*                                                                         *)
(* One wrapped function (one application of `decorator`) is modelled: its  *)
(* closure state memo / cache_keys / lock, and a small set of threads      *)
(* calling it.  A call is followed statement by statement: a step of a     *)
(* thread is one statement of `wrapper` or `memoized`, entering and        *)
(* leaving a `with lock:` being statements of their own, and each of the   *)
(* three list calls of line 274 a step of its own.                         *)
(* KeySpec is the same program called with further call shapes;            *)
(* WrappedSpec follows calls on several wrapped functions, each with its   *)
(* own closure state.                                                      *)
(* RaceSpec is two threads calling with the same arguments, their          *)
(* statements run in turn.                                                 *)
(* RetrySpec is one call of retry_operation of the same file: its loop of  *)
(* attempts, with the calls it makes to func, on_retry and time.sleep.     *)
(*                                                                         *)
(* Values.  An argument value is a sequence of strings: a plain value v is *)
(* <<v>>, the pair (n, v) is <<n, v>>.  The value "U" stands for an        *)
(* unhashable object (a list).  A key is a sequence of argument values.    *)
(***************************************************************************)
EXTENDS Integers, Sequences, FiniteSets, TLC

\* ------------------------------------------------------------------ bounds
NumThreads == 2
MaxCalls == 4
MaxLimit == 2
NumWrapped == 2
MaxRetries == 3

\* cache_limit=None (the default): no limit
NoLimit == -1

\* cache_limit=100 of the documented example (fibonacci)
DocCacheLimit == 100

Threads == 1..NumThreads

\* the wrapped functions made by applying `decorator` several times
Instances == 1..NumWrapped

\* ------------------------------------------------------------------ inputs
Atom(v) == <<v>>
Pair(n, v) == <<n, v>>

\* The calls the threads may issue: positional arguments and keyword
\* arguments (as (name, value) items in the order supplied).
CallShapes ==
    { [args |-> <<Atom("A")>>, kwargs |-> <<>>],
      [args |-> <<Atom("B")>>, kwargs |-> <<>>],
      [args |-> <<Atom("C")>>, kwargs |-> <<>>],
      [args |-> <<Atom("U")>>, kwargs |-> <<>>],
      [args |-> <<>>, kwargs |-> <<Pair("x", "A")>>] }

NoCall == [args |-> <<>>, kwargs |-> <<>>]

\* Further calls, for the composition of the key: the pair ("x", "A") passed
\* as the one positional argument, and two keyword arguments in both orders.
KeyShapes ==
    CallShapes \cup
    { [args |-> <<Pair("x", "A")>>, kwargs |-> <<>>],
      [args |-> <<>>, kwargs |-> <<Pair("x", "A"), Pair("y", "B")>>],
      [args |-> <<>>, kwargs |-> <<Pair("y", "B"), Pair("x", "A")>>] }

Policies == {"LRU", "FIFO", "MRU"}

\* key = args + tuple(kwargs.items())
ComposeKey(args, kwargs) == args \o kwargs

KeyOf(c) == ComposeKey(c.args, c.kwargs)

AllKeys == { KeyOf(c) : c \in KeyShapes }

KeyA == <<Atom("A")>>
KeyB == <<Atom("B")>>
KeyC == <<Atom("C")>>
KeyU == <<Atom("U")>>

\* hash(key): a tuple is hashable iff each of its elements is
Hashable(k) == \A i \in DOMAIN k : \A j \in DOMAIN k[i] : k[i][j] # "U"

\* the wrapped function: its return value for the arguments forming key k
FuncValue(k) == k

\* ------------------------------------------------------------------ state
VARIABLES
    cache_limit,      \* NoLimit or an integer
    eviction_policy,  \* a policy name
    thread_safe,      \* BOOLEAN
    memo,             \* the store: function from cached keys to values
    cache_keys,       \* the eviction queue: sequence of keys
    lock,             \* "None" | "unlocked" | "locked"
    holder,           \* the thread whose acquire locked the lock, 0 if none
    pc,               \* per thread: "idle", "wrapper" (at line 290), a
                      \* position in memoized (InMemoized), or "return"
                      \* (memoized has ended, wrapper not yet)
    ret,              \* per thread: how memoized ends or ended
    oldest_key,       \* per thread: the local oldest_key of memoized
    temp,             \* per thread: the values in hand inside line 274,
                      \* [idx, key]: the index found, then the key popped
    call,             \* per thread: the arguments of its call in progress
    invoked,          \* per key: how many times func ran for it
    log,              \* the completed calls, in order of completion
    caches,           \* several wrapped functions: per instance its closure
                      \* state [memo, cache_keys, lock, holder]
    at,               \* per thread, its call on one of these instances:
                      \* [inst, pc, call, out, oldest_key, temp], inst = 0 when
                      \* idle; out is how its last call ended or, during a
                      \* call, how memoized ends
    r_in,             \* retry_operation: the arguments of the call
    r_pc,             \* "uncalled" | "for" | "returned" | "raised"
    r_attempt,        \* the loop variable `attempt`, 0 before the loop
    r_delay,          \* the local `delay`
    r_args,           \* the local `args`: the attempts whose
                      \* pre_process_args rewrote it, in order
    r_trace,          \* the calls made so far: func, on_retry, time.sleep
    r_result          \* what retry_operation returned or raised

vars == <<cache_limit, eviction_policy, thread_safe, memo, cache_keys, lock,
          holder, pc, ret, oldest_key, temp, call, invoked, log, caches, at,
          r_in, r_pc, r_attempt, r_delay, r_args, r_trace, r_result>>

\* the state of the one wrapped function of Spec
single == <<memo, cache_keys, lock, holder, pc, ret, oldest_key, temp, call, invoked,
           log>>

\* the state of the several wrapped functions of WrappedSpec
several == <<caches, at>>

config == <<cache_limit, eviction_policy, thread_safe>>

\* the state of a call of retry_operation (RetrySpec)
retrying == <<r_in, r_pc, r_attempt, r_delay, r_args, r_trace, r_result>>

\* outcomes of a call
Value(v) == [kind |-> "value", val |-> v]
Raise(e) == [kind |-> e, val |-> <<>>]

\* `with None:` -- TypeError: 'NoneType' object does not support the
\* context manager protocol
GuardError == Raise("TypeError:NoneType-context-manager")
UnhashableError == Raise("TypeError:unhashable")
PolicyError == Raise("ValueError:unsupported-policy")
EmptyPopError == Raise("IndexError:pop-from-empty-list")
FuncError == Raise("FuncError")
ReleaseError == Raise("RuntimeError:release-unlocked-lock")
NotInListError == Raise("ValueError:not-in-list")
PopRangeError == Raise("IndexError:pop-index-out-of-range")

\* nothing in hand
NoTemp == [idx |-> 0, key |-> <<>>]
KeyError == Raise("KeyError")

EmptyMemo == [k \in {} |-> <<>>]

\* ------------------------------------------------------------- list / dict
\* cache_keys.index(key): position of the first occurrence
IndexOf(q, k) == CHOOSE i \in DOMAIN q : q[i] = k /\ \A j \in 1..(i-1) : q[j] # k

\* cache_keys.pop(i)
RemoveAt(q, i) == SubSeq(q, 1, i - 1) \o SubSeq(q, i + 1, Len(q))

\* memo.pop(k, None)
DictPop(m, k) == [x \in (DOMAIN m) \ {k} |-> m[x]]

\* memo[k] = v
DictSet(m, k, v) == [x \in (DOMAIN m) \cup {k} |-> IF x = k THEN v ELSE m[x]]

\* ---------------------------------------------------------------- eviction
\* _apply_eviction_policy(eviction_policy, cache_keys): the outcome, the
\* evicted key and the queue left
ApplyEvictionPolicy(policy, q) ==
    IF policy \in {"LRU", "FIFO"}
    THEN IF q = <<>>
         THEN [out |-> EmptyPopError, oldest |-> <<>>, q |-> q]
         ELSE [out |-> Value(<<>>), oldest |-> Head(q), q |-> Tail(q)]
    ELSE [out |-> PolicyError, oldest |-> <<>>, q |-> q]

\* the positions of a thread in memoized: at `with lock:` (line 270), at one
\* of the statements of the block, at the exit of the with statement
InMemoized ==
    {"memoized", "test", "hit", "index", "pop", "reappend", "hit_return",
     "limit", "evict", "drop", "func", "store", "append", "exit"}

\* One statement of memoized, run by thread t standing at th.pc with key
\* th.key, on the closure state c = [memo, cache_keys, lock, holder]; fails:
\* whether func raises when called.  Gives the closure state and the thread
\* afterwards.  An exception or a return inside the block leads to the exit
\* of the with statement (pc "exit") with the outcome in ret; `with None:`
\* ends the call (pc "done").
MemoizedStep(c, th, t, limit, policy, fails) ==
    LET k == th.key
        To(p) == [th EXCEPT !.pc = p]
        Ends(out) == [th EXCEPT !.pc = "exit", !.ret = out, !.temp = NoTemp]
    IN CASE th.pc = "memoized" ->
            \* with lock:
            IF c.lock = "None"
            THEN [c |-> c, th |-> [th EXCEPT !.pc = "done", !.ret = GuardError]]
            ELSE [c |-> [c EXCEPT !.lock = "locked", !.holder = t],
                  th |-> To("test")]
         [] th.pc = "test" ->
            \* if key in memo:
            [c |-> c,
             th |-> IF ~Hashable(k) THEN Ends(UnhashableError)
                    ELSE IF k \in DOMAIN c.memo THEN To("hit")
                    ELSE To("limit")]
         [] th.pc = "hit" ->
            \* if eviction_policy == 'LRU':
            [c |-> c,
             th |-> IF policy = "LRU" THEN To("index") ELSE To("hit_return")]
         [] th.pc = "index" ->
            \* line 274, first call: cache_keys.index(key)
            [c |-> c,
             th |-> IF \E i \in DOMAIN c.cache_keys : c.cache_keys[i] = k
                    THEN [th EXCEPT !.pc = "pop",
                                    !.temp.idx = IndexOf(c.cache_keys, k)]
                    ELSE Ends(NotInListError)]
         [] th.pc = "pop" ->
            \* line 274, second call: cache_keys.pop(<the index found>)
            IF c.cache_keys = <<>>
            THEN [c |-> c, th |-> Ends(EmptyPopError)]
            ELSE IF th.temp.idx > Len(c.cache_keys)
            THEN [c |-> c, th |-> Ends(PopRangeError)]
            ELSE [c |-> [c EXCEPT !.cache_keys = RemoveAt(@, th.temp.idx)],
                  th |-> [th EXCEPT !.pc = "reappend",
                                    !.temp.key = c.cache_keys[th.temp.idx]]]
         [] th.pc = "reappend" ->
            \* line 274, third call: cache_keys.append(<the key popped>)
            [c |-> [c EXCEPT !.cache_keys = Append(@, th.temp.key)],
             th |-> [th EXCEPT !.pc = "hit_return", !.temp = NoTemp]]
         [] th.pc = "hit_return" ->
            \* return memo[key]
            [c |-> c,
             th |-> IF k \in DOMAIN c.memo THEN Ends(Value(c.memo[k]))
                    ELSE Ends(KeyError)]
         [] th.pc = "limit" ->
            \* if cache_limit is not None and len(cache_keys) >= cache_limit:
            [c |-> c,
             th |-> IF limit # NoLimit /\ Len(c.cache_keys) >= limit
                    THEN To("evict") ELSE To("func")]
         [] th.pc = "evict" ->
            \* oldest_key = _apply_eviction_policy(eviction_policy, cache_keys)
            LET ev == ApplyEvictionPolicy(policy, c.cache_keys)
            IN IF ev.out.kind # "value"
               THEN [c |-> c, th |-> Ends(ev.out)]
               ELSE [c |-> [c EXCEPT !.cache_keys = ev.q],
                     th |-> [th EXCEPT !.pc = "drop", !.oldest_key = ev.oldest]]
         [] th.pc = "drop" ->
            \* memo.pop(oldest_key, None)
            [c |-> [c EXCEPT !.memo = DictPop(@, th.oldest_key)],
             th |-> To("func")]
         [] th.pc = "func" ->
            \* result = func(*args, **kwargs)
            [c |-> c, th |-> IF fails THEN Ends(FuncError) ELSE To("store")]
         [] th.pc = "store" ->
            \* memo[key] = result
            [c |-> [c EXCEPT !.memo = DictSet(@, k, FuncValue(k))],
             th |-> To("append")]
         [] th.pc = "append" ->
            \* cache_keys.append(key); return result
            [c |-> [c EXCEPT !.cache_keys = Append(@, k)],
             th |-> Ends(Value(FuncValue(k)))]
         [] th.pc = "exit" ->
            \* the with statement is left: lock.release(), which raises on
            \* an unlocked lock; memoized returns or raises to wrapper
            IF c.lock = "locked"
            THEN [c |-> [c EXCEPT !.lock = "unlocked", !.holder = 0],
                  th |-> To("return")]
            ELSE [c |-> c,
                  th |-> [th EXCEPT !.pc = "return", !.ret = ReleaseError]]

\* ------------------------------------------------------------------ actions
\* a thread outside any call, its last call having ended with outcome o
Idle(o) ==
    [inst |-> 0, pc |-> "idle", call |-> NoCall, out |-> o, oldest_key |-> <<>>,
     temp |-> NoTemp]

NotCalling == Idle(Raise("none"))

InFlight == Cardinality({ t \in Threads : pc[t] # "idle" })

\* ------------------------------------ retry_operation: arguments, results
\* retries=3, the default
DefaultRetries == 3

\* The arguments of a call of retry_operation.  delay and backoff_factor are
\* whole numbers of seconds; on_retry and pre_process_args: whether a
\* callback is passed.  catch_exceptions is fixed: an exception raised in an
\* attempt either matches it or does not.
RetryArgs ==
    [retries : 0..MaxRetries, delay : {1}, backoff_factor : {1, 2},
     on_retry : BOOLEAN, pre_process_args : BOOLEAN]

DefaultArgs ==
    [retries |-> DefaultRetries, delay |-> 1, backoff_factor |-> 1,
     on_retry |-> FALSE, pre_process_args |-> FALSE]

\* what retry_operation hands to its caller: the value func returned in
\* attempt a, the exception object raised in attempt a, or None
Returned(a) == [kind |-> "value", of |-> a]
Raised(a) == [kind |-> "raise", of |-> a]
ReturnedNone == [kind |-> "None", of |-> 0]
NoResult == [kind |-> "running", of |-> 0]

\* a call made by retry_operation during attempt a; arg is the delay slept
\* for time.sleep and 0 otherwise
Event(ev, a, arg) == [ev |-> ev, attempt |-> a, arg |-> arg]

\* retry_operation entered with arguments in: args, kwargs = (), {}
RetryEntered(in) ==
    /\ r_in = in
    /\ r_pc = "for"
    /\ r_attempt = 0
    /\ r_delay = in.delay
    /\ r_args = <<>>
    /\ r_trace = <<>>
    /\ r_result = NoResult

\* retry_operation not called
RetryUncalled ==
    /\ r_in = DefaultArgs
    /\ r_pc = "uncalled"
    /\ r_attempt = 0
    /\ r_delay = DefaultArgs.delay
    /\ r_args = <<>>
    /\ r_trace = <<>>
    /\ r_result = NoResult

\* decorator(func): the closure state of a new wrapped function
Decorated ==
    /\ memo = EmptyMemo
    /\ cache_keys = <<>>
    /\ lock = IF thread_safe THEN "unlocked" ELSE "None"
    /\ holder = 0
    /\ pc = [t \in Threads |-> "idle"]
    /\ ret = [t \in Threads |-> Raise("none")]
    /\ oldest_key = [t \in Threads |-> <<>>]
    /\ temp = [t \in Threads |-> NoTemp]
    /\ call = [t \in Threads |-> NoCall]
    /\ invoked = [k \in AllKeys |-> 0]
    /\ log = <<>>
    /\ caches = [i \in Instances |->
                    [memo |-> EmptyMemo, cache_keys |-> <<>>,
                     lock |-> IF thread_safe THEN "unlocked" ELSE "None",
                     holder |-> 0]]
    /\ at = [t \in Threads |-> NotCalling]

Init ==
    /\ cache_limit \in {NoLimit, DocCacheLimit} \cup (0..MaxLimit)
    /\ eviction_policy \in Policies
    /\ thread_safe \in BOOLEAN
    /\ Decorated
    /\ RetryUncalled

\* A thread calls the wrapped function: `memoized` itself when lock is None,
\* `wrapper` otherwise.
Call(t, c) ==
    /\ pc[t] = "idle"
    /\ Len(log) + InFlight < MaxCalls
    /\ call' = [call EXCEPT ![t] = c]
    /\ pc' = [pc EXCEPT ![t] = IF lock = "None" THEN "memoized" ELSE "wrapper"]
    /\ UNCHANGED <<config, memo, cache_keys, lock, holder, ret, oldest_key, temp,
                   invoked, log, several, retrying>>

\* A lock whose acquire never waits (acquire(blocking=False) with the
\* result ignored).
LockAcquirable_NonBlocking(l, h, t) == TRUE

\* threading.Lock.acquire(): possible only on an unlocked lock
LockAcquirable(l, h, t) == l = "unlocked"

\* wrapper: `with lock:` entered, then memoized(*args, **kwargs) is called
WrapperAcquire(t) ==
    /\ pc[t] = "wrapper"
    /\ LockAcquirable(lock, holder, t)
    /\ lock' = "locked"
    /\ holder' = t
    /\ pc' = [pc EXCEPT ![t] = "memoized"]
    /\ UNCHANGED <<config, memo, cache_keys, ret, oldest_key, temp, call, invoked,
                   log, several, retrying>>

\* wrapper's `with lock:` exit after memoized ended with outcome out while
\* the lock was in state l: release() of an unlocked lock raises.
WrapperExit(out, l) == IF l = "locked" THEN out ELSE ReleaseError

\* wrapper: memoized has returned or raised, `with lock:` is left.  The lock
\* is released whichever thread locked it; the call ends.
WrapperRelease(t) ==
    /\ pc[t] = "return"
    /\ log' = Append(log, [key |-> KeyOf(call[t]),
                           out |-> WrapperExit(ret[t], lock)])
    /\ lock' = IF lock = "locked" THEN "unlocked" ELSE lock
    /\ holder' = IF lock = "locked" THEN 0 ELSE holder
    /\ pc' = [pc EXCEPT ![t] = "idle"]
    /\ ret' = [ret EXCEPT ![t] = Raise("none")]
    /\ call' = [call EXCEPT ![t] = NoCall]
    /\ UNCHANGED <<config, memo, cache_keys, oldest_key, temp, invoked, several,
                   retrying>>

\* the two steps of wrapper: entering and leaving its `with lock:`
Wrapper(t) ==
    IF pc[t] = "return" THEN WrapperRelease(t) ELSE WrapperAcquire(t)

\* whether thread t standing at position p of memoized can take its step:
\* entering `with lock:` waits while the lock is locked
MemoizedCanStep(c, p, t) ==
    /\ p \in InMemoized
    /\ (p = "memoized" /\ c.lock # "None") => LockAcquirable(c.lock, c.holder, t)

\* memoized (lines 268-283): thread t runs the statement it stands at.  The
\* key was composed on entry (line 269).  `with None:` raises and the call
\* ends there, memoized being the wrapped function itself; otherwise
\* memoized ends at the exit of its with statement and wrapper goes on.
Memoized(t, fails) ==
    /\ MemoizedCanStep([lock |-> lock, holder |-> holder], pc[t], t)
    /\ LET c == [memo |-> memo, cache_keys |-> cache_keys,
                 lock |-> lock, holder |-> holder]
           th == [pc |-> pc[t], key |-> KeyOf(call[t]), ret |-> ret[t],
                  oldest_key |-> oldest_key[t], temp |-> temp[t]]
           r == MemoizedStep(c, th, t, cache_limit, eviction_policy, fails)
       IN /\ memo' = r.c.memo
          /\ cache_keys' = r.c.cache_keys
          /\ lock' = r.c.lock
          /\ holder' = r.c.holder
          /\ invoked' = IF pc[t] = "func"
                        THEN [invoked EXCEPT ![th.key] = @ + 1] ELSE invoked
          /\ oldest_key' = [oldest_key EXCEPT ![t] = r.th.oldest_key]
          /\ temp' = [temp EXCEPT ![t] = r.th.temp]
          /\ IF r.th.pc = "done"
             THEN /\ log' = Append(log, [key |-> th.key, out |-> r.th.ret])
                  /\ pc' = [pc EXCEPT ![t] = "idle"]
                  /\ call' = [call EXCEPT ![t] = NoCall]
                  /\ UNCHANGED ret
             ELSE /\ pc' = [pc EXCEPT ![t] = r.th.pc]
                  /\ ret' = [ret EXCEPT ![t] = r.th.ret]
                  /\ UNCHANGED <<log, call>>
    /\ UNCHANGED <<config, several, retrying>>

\* the steps of a call in progress
ThreadStep(t) ==
    \/ Wrapper(t)
    \/ \E fails \in BOOLEAN : Memoized(t, fails)

Next ==
    \E t \in Threads :
        \/ \E c \in CallShapes : Call(t, c)
        \/ ThreadStep(t)

Spec == Init /\ [][Next]_vars

\* Threads are scheduled fairly: a step of a call that stays possible is
\* eventually taken.  Issuing a call is never forced.
FairSpec == Spec /\ \A t \in Threads : WF_vars(ThreadStep(t))

\* The same program called with the further call shapes.
KeyNext ==
    \E t \in Threads :
        \/ \E c \in KeyShapes : Call(t, c)
        \/ ThreadStep(t)

KeySpec == Init /\ [][KeyNext]_vars

\* ------------------------------------------------- two calls in lock step
\* How far into a call a position is, in statements.
Rank(p) ==
    CASE p = "wrapper" -> 0
      [] p = "memoized" -> 1
      [] p = "test" -> 2
      [] p \in {"hit", "limit"} -> 3
      [] p \in {"index", "evict"} -> 4
      [] p \in {"pop", "drop"} -> 5
      [] p \in {"reappend", "func"} -> 6
      [] p \in {"hit_return", "store"} -> 7
      [] p = "append" -> 8
      [] p = "exit" -> 9
      [] p = "return" -> 10
      [] OTHER -> 11

\* Two threads call the wrapped function with the same arguments before
\* either has run a statement of it.
RaceCall(t, c) ==
    /\ log = <<>>
    /\ InFlight < 2
    /\ \A u \in Threads : pc[u] \in {"idle", "wrapper", "memoized"}
    /\ \A u \in Threads : pc[u] # "idle" => call[u] = c
    /\ Call(t, c)

\* The two calls then run statement by statement in turn: a thread runs its
\* next statement only when no call in progress is behind it, so that each
\* thread's membership test (line 271) comes before either thread's insert
\* (lines 281-282).  func returns.
RaceStep(t) ==
    /\ InFlight = 2 \/ log # <<>>
    /\ \A u \in Threads : pc[u] # "idle" => Rank(pc[t]) <= Rank(pc[u])
    /\ \/ Wrapper(t)
       \/ Memoized(t, FALSE)

RaceNext ==
    \E t \in Threads :
        \/ \E c \in CallShapes : RaceCall(t, c)
        \/ RaceStep(t)

\* Both threads are scheduled: a statement that stays possible is run.
RaceSpec ==
    Init /\ [][RaceNext]_vars /\ \A t \in Threads : WF_vars(RaceStep(t))

\* ------------------------------------------------------- retry_operation
\* One call of retry_operation, one action per way an iteration of
\* `for attempt in range(1, retries + 1)` can end.  An exception raised in an
\* attempt comes from pre_process_args (who = "pre", func is then not called)
\* or from func (who = "func"); caught: whether it matches catch_exceptions.
\* on_retry and time.sleep return.

\* the calls of the try block made before anything raises or returns
Tried(a, who) ==
    (IF r_in.pre_process_args
     THEN <<Event("pre_process_args", a, 0)>> ELSE <<>>)
    \o (IF who = "func" THEN <<Event("func", a, 0)>> ELSE <<>>)

\* args after the try block of attempt a: line 453 rebinds args before func
\* is called, so the rewrite stays when func raises; it does not happen when
\* pre_process_args itself raises.  pre_process_args is taken to return
\* args + (attempt,).
ArgsAfter(a, who) ==
    IF r_in.pre_process_args /\ who = "func" THEN Append(r_args, a) ELSE r_args

\* The value returned by func is dropped and the loop goes on (a call
\* statement in place of the return statement).
AttemptReturns_LoopGoesOn ==
    /\ r_pc = "for"
    /\ r_attempt < r_in.retries
    /\ LET a == r_attempt + 1
       IN /\ r_attempt' = a
          /\ r_args' = ArgsAfter(a, "func")
          /\ r_trace' = r_trace \o Tried(a, "func")
                               \o <<Event("func:return", a, 0)>>
    /\ UNCHANGED <<r_in, r_pc, r_delay, r_result>>
    /\ UNCHANGED <<config, single, several>>

\* return func(*args, **kwargs), func returning
AttemptReturns ==
    /\ r_pc = "for"
    /\ r_attempt < r_in.retries
    /\ LET a == r_attempt + 1
       IN /\ r_attempt' = a
          /\ r_args' = ArgsAfter(a, "func")
          /\ r_trace' = r_trace \o Tried(a, "func")
                               \o <<Event("func:return", a, 0)>>
          /\ r_result' = Returned(a)
    /\ r_pc' = "returned"
    /\ UNCHANGED <<r_in, r_delay>>
    /\ UNCHANGED <<config, single, several>>

\* the try block raises: except catch_exceptions as e, or the exception
\* leaves retry_operation when it does not match
AttemptRaises(who, caught) ==
    /\ r_pc = "for"
    /\ r_attempt < r_in.retries
    /\ who = "pre" => r_in.pre_process_args
    /\ LET a == r_attempt + 1
           raised == Tried(a, who) \o
                     <<Event(who \o (IF caught THEN ":raise" ELSE ":raise_other"),
                             a, 0)>>
       IN /\ r_attempt' = a
          /\ r_args' = ArgsAfter(a, who)
          /\ IF caught /\ a < r_in.retries
             THEN /\ r_trace' = r_trace \o raised
                        \o (IF r_in.on_retry
                            THEN <<Event("on_retry", a, 0)>> ELSE <<>>)
                        \o <<Event("time.sleep", a, r_delay)>>
                  /\ r_delay' = r_delay * r_in.backoff_factor
                  /\ UNCHANGED <<r_pc, r_result>>
             ELSE /\ r_trace' = r_trace \o raised
                  /\ r_pc' = "raised"
                  /\ r_result' = Raised(a)
                  /\ UNCHANGED r_delay
    /\ UNCHANGED r_in
    /\ UNCHANGED <<config, single, several>>

\* range(1, retries + 1) is exhausted: the function body ends, None is
\* returned
LoopEnds ==
    /\ r_pc = "for"
    /\ r_attempt >= r_in.retries
    /\ r_pc' = "returned"
    /\ r_result' = ReturnedNone
    /\ UNCHANGED <<r_in, r_attempt, r_delay, r_args, r_trace>>
    /\ UNCHANGED <<config, single, several>>

RetryInit ==
    /\ cache_limit = NoLimit
    /\ eviction_policy = "LRU"
    /\ thread_safe = FALSE
    /\ Decorated
    /\ \E in \in RetryArgs : RetryEntered(in)

RetryNext ==
    \/ AttemptReturns
    \/ \E who \in {"pre", "func"}, caught \in BOOLEAN : AttemptRaises(who, caught)
    \/ LoopEnds

RetrySpec == RetryInit /\ [][RetryNext]_vars

\* ------------------------------------------------ several wrapped functions
\* The closure state that wrapped function i uses: memo, cache_keys and lock
\* are created in `decorator`, once per application.
CacheOf_Shared(i) == 1

CacheOf(i) == i

\* the calls made on these wrapped functions
WrappedShapes ==
    { [args |-> <<Atom("A")>>, kwargs |-> <<>>],
      [args |-> <<Atom("U")>>, kwargs |-> <<>>] }

\* A thread calls wrapped function i.
WrappedCall(t, i, c) ==
    /\ at[t].pc = "idle"
    /\ at' = [at EXCEPT ![t] =
                 [inst |-> i,
                  pc |-> IF caches[CacheOf(i)].lock = "None"
                         THEN "memoized" ELSE "wrapper",
                  call |-> c, out |-> at[t].out, oldest_key |-> <<>>,
                  temp |-> NoTemp]]
    /\ UNCHANGED <<config, single, caches, retrying>>

\* wrapper of the instance called: `with lock:` entered
WrappedAcquire(t) ==
    /\ at[t].pc = "wrapper"
    /\ LET o == CacheOf(at[t].inst)
       IN /\ LockAcquirable(caches[o].lock, caches[o].holder, t)
          /\ caches' = [caches EXCEPT ![o].lock = "locked", ![o].holder = t]
    /\ at' = [at EXCEPT ![t].pc = "memoized"]
    /\ UNCHANGED <<config, single, retrying>>

\* wrapper of the instance called: `with lock:` left, the call ends
WrappedRelease(t) ==
    /\ at[t].pc = "return"
    /\ LET o == CacheOf(at[t].inst)
       IN /\ at' = [at EXCEPT ![t] =
                       Idle(WrapperExit(at[t].out, caches[o].lock))]
          /\ caches' = IF caches[o].lock = "locked"
                       THEN [caches EXCEPT ![o].lock = "unlocked",
                                           ![o].holder = 0]
                       ELSE caches
    /\ UNCHANGED <<config, single, retrying>>

\* the two steps of wrapper of the instance called
WrapperOfInstance(t) ==
    IF at[t].pc = "return" THEN WrappedRelease(t) ELSE WrappedAcquire(t)

\* memoized of the instance called, as Memoized
WrappedMemoized(t, fails) ==
    /\ at[t].inst # 0
    /\ MemoizedCanStep(caches[CacheOf(at[t].inst)], at[t].pc, t)
    /\ LET o == CacheOf(at[t].inst)
           th == [pc |-> at[t].pc, key |-> KeyOf(at[t].call),
                  ret |-> at[t].out, oldest_key |-> at[t].oldest_key,
                  temp |-> at[t].temp]
           r == MemoizedStep(caches[o], th, t, cache_limit, eviction_policy,
                             fails)
       IN /\ caches' = [caches EXCEPT ![o] = r.c]
          /\ at' = [at EXCEPT ![t] =
                       IF r.th.pc = "done" THEN Idle(r.th.ret)
                       ELSE [@ EXCEPT !.pc = r.th.pc, !.out = r.th.ret,
                                      !.oldest_key = r.th.oldest_key,
                                      !.temp = r.th.temp]]
    /\ UNCHANGED <<config, single, retrying>>

WrappedNext ==
    \E t \in Threads :
        \/ \E i \in Instances, c \in WrappedShapes : WrappedCall(t, i, c)
        \/ WrapperOfInstance(t)
        \/ \E fails \in BOOLEAN : WrappedMemoized(t, fails)

WrappedSpec == Init /\ [][WrappedNext]_vars

\* ------------------------------------------------------------------ helpers
CallsOf(k) == { i \in DOMAIN log : log[i].key = k }

KeysLogged == [i \in DOMAIN log |-> log[i].key]

\* the positions of r_trace holding a call or an outcome named ev
EventsAt(ev) == { i \in DOMAIN r_trace : r_trace[i].ev = ev }

\* retry_operation has ended after attempts in which nothing but func raised,
\* each time an exception matching catch_exceptions
FuncAlwaysFailed ==
    /\ r_pc \in {"returned", "raised"}
    /\ EventsAt("func:return") = {}
    /\ EventsAt("func:raise_other") = {}
    /\ EventsAt("pre:raise") = {}
    /\ EventsAt("pre:raise_other") = {}

\* ------------------------------------------------------------------- claims

\* C1 (as claimed): hit idempotence.  With no cache limit, once a hashable
\* key a has been called at least twice and the wrapped function never
\* raised for it, the wrapped function ran exactly once for a and every one
\* of those calls returned its value.
C1_HitIdempotence ==
    \A k \in AllKeys :
        ( /\ cache_limit = NoLimit
          /\ Hashable(k)
          /\ Cardinality(CallsOf(k)) >= 2
          /\ \A i \in CallsOf(k) : log[i].out # FuncError )
        => ( /\ invoked[k] = 1
             /\ \A i \in CallsOf(k) : log[i].out = Value(FuncValue(k)) )

\* C2 (as claimed): with thread_safe false no guard is entered: the only
\* call made so far, with hashable arguments and an empty cache, ran the
\* wrapped function and gave the caller its result (or its exception).
C2_UnguardedCallReturns ==
    ( /\ ~thread_safe
      /\ cache_limit = NoLimit
      /\ InFlight = 0
      /\ Len(log) = 1
      /\ Hashable(log[1].key) )
    => ( /\ log[1].out \in {Value(FuncValue(log[1].key)), FuncError}
         /\ invoked[log[1].key] = 1 )

\* C3 (as claimed): with thread_safe true a call in progress can always take
\* its next step unless the guard is held by another thread's call: no call
\* waits on a guard held by its own thread.
C3_OnlyWaitsForOthers ==
    \A t \in Threads :
        (thread_safe /\ pc[t] # "idle")
        => (ENABLED ThreadStep(t) \/ (lock = "locked" /\ holder # t))

\* C5: with thread_safe true at most one thread is past the wrapper's
\* acquire (inside memoized, where the wrapped function is run and the cache
\* is changed), and that thread is the one whose acquire locked the guard.
C5_Serialized ==
    thread_safe =>
        /\ Cardinality({ t \in Threads :
                            pc[t] \in InMemoized \cup {"return"} }) <= 1
        /\ \A t \in Threads :
               pc[t] \in InMemoized \cup {"return"}
                   => (lock = "locked" /\ holder = t)

\* C5 witness: one thread is inside while another waits at the guard.
C5_Witness ==
    /\ thread_safe
    /\ \E t, u \in Threads :
           t # u /\ pc[t] = "memoized" /\ holder = t /\ pc[u] = "wrapper"

\* C6 (as claimed): with thread_safe true, two threads calling at the same
\* time with the same uncached key (here A, first calls on an empty cache)
\* both eventually return the same value, the wrapped function having run
\* once.
C6_SameKeyOnce ==
    ( /\ thread_safe
      /\ cache_limit = NoLimit
      /\ log = <<>>
      /\ \E t, u \in Threads :
             /\ t # u
             /\ pc[t] # "idle" /\ pc[u] # "idle"
             /\ KeyOf(call[t]) = KeyA /\ KeyOf(call[u]) = KeyA )
    ~> ( /\ Len(log) >= 2
         /\ log[1] = [key |-> KeyA, out |-> Value(FuncValue(KeyA))]
         /\ log[2] = log[1]
         /\ invoked[KeyA] = 1 )

\* C9 (as claimed): LRU retention.  With cache_limit 2 and LRU, after the
\* calls A, B, A, C exactly A and C are cached.
C9_LruRetention ==
    ( /\ cache_limit = 2
      /\ eviction_policy = "LRU"
      /\ InFlight = 0
      /\ KeysLogged = <<KeyA, KeyB, KeyA, KeyC>> )
    => DOMAIN memo = {KeyA, KeyC}

\* C10 (as claimed): FIFO eviction.  With cache_limit 2 and FIFO, after the
\* calls A, B, A, C exactly B and C are cached.
C10_FifoEviction ==
    ( /\ cache_limit = 2
      /\ eviction_policy = "FIFO"
      /\ InFlight = 0
      /\ KeysLogged = <<KeyA, KeyB, KeyA, KeyC>> )
    => DOMAIN memo = {KeyB, KeyC}

\* C12 (as claimed): outcome taxonomy.  Under a supported configuration
\* every completed call ended with a value, with the exception of the
\* wrapped function, or with the unhashable-argument or unsupported-policy
\* error.
C12_OutcomeTaxonomy ==
    ( /\ eviction_policy \in {"LRU", "FIFO"}
      /\ cache_limit \in {NoLimit} \cup (1..DocCacheLimit) )
    => \A i \in DOMAIN log :
           log[i].out.kind \in { "value", FuncError.kind,
                                 UnhashableError.kind, PolicyError.kind }

\* C13 (as claimed): eager validation.  With an eviction_policy other than
\* 'LRU' and 'FIFO' no wrapped callable exists, so no call is ever made
\* through one.
C13_EagerValidation ==
    eviction_policy \notin {"LRU", "FIFO"}
    => (log = <<>> /\ \A t \in Threads : pc[t] = "idle")

\* C14 (as claimed): unhashable argument rejection.  A call with an
\* unhashable argument that has reached memoized ends with an error, the
\* wrapped function not invoked for it, nothing stored for it and the guard
\* not left locked.
C14_UnhashableRejected ==
    ( /\ log = <<>>
      /\ InFlight = 1
      /\ \E t \in Threads : pc[t] = "memoized" /\ KeyOf(call[t]) = KeyU )
    ~> ( /\ \E i \in CallsOf(KeyU) : log[i].out.kind # "value"
         /\ invoked[KeyU] = 0
         /\ KeyU \notin DOMAIN memo
         /\ \A j \in DOMAIN cache_keys : cache_keys[j] # KeyU
         /\ lock # "locked" )

\* C15 (as claimed): key identity.  Two calls in progress have equal keys
\* only if their positional arguments are equal and their keyword items are
\* equal.
C15_KeyIdentity ==
    \A t, u \in Threads :
        ( /\ pc[t] # "idle"
          /\ pc[u] # "idle"
          /\ KeyOf(call[t]) = KeyOf(call[u]) )
        => (call[t].args = call[u].args /\ call[t].kwargs = call[u].kwargs)

\* C17 (as claimed): the documented example.  Under cache_limit=100, 'LRU',
\* thread_safe=True the first call, made with a hashable argument, returns
\* the value of the wrapped function.
C17_DocExampleReturns ==
    ( /\ thread_safe
      /\ eviction_policy = "LRU"
      /\ cache_limit = DocCacheLimit
      /\ log = <<>>
      /\ InFlight = 1
      /\ \E t \in Threads : pc[t] # "idle" /\ KeyOf(call[t]) = KeyA )
    ~> (\E i \in CallsOf(KeyA) : log[i].out = Value(FuncValue(KeyA)))

\* the wrapped function on which thread t takes the step, 0 if t takes none
SteppingOn(t) ==
    IF at'[t] = at[t] THEN 0
    ELSE IF at[t].inst = 0 THEN at'[t].inst ELSE at[t].inst

\* C18: cache independence.  A step of a call on one wrapped function leaves
\* the store, the queue and the guard of every other wrapped function
\* unchanged.
C18_Independent ==
    [][ \A t \in Threads, j \in Instances :
            (SteppingOn(t) # 0 /\ SteppingOn(t) # j) => caches'[j] = caches[j]
      ]_vars

\* C18 witness: a call has locked the guard of one wrapped function while
\* the guard of another is unlocked and a call on that other one is about
\* to take it.
C18_Witness ==
    \E t, u \in Threads, i, j \in Instances :
        /\ i # j
        /\ at[t].inst = i /\ at[t].pc = "memoized"
        /\ caches[i].lock = "locked" /\ caches[i].holder = t
        /\ at[u].inst = j /\ at[u].pc = "wrapper"
        /\ caches[j].lock = "unlocked"

\* C24 -- retry_operation stops at the first success: once an attempt of func
\* has returned, that return is the last thing retry_operation did (func is
\* not invoked again, on_retry is not called for that attempt, nothing more
\* is slept) and retry_operation has returned the value of that attempt.
C24_StopsAtFirstSuccess ==
    \A i \in EventsAt("func:return") :
        /\ i = Len(r_trace)
        /\ r_pc = "returned"
        /\ r_result = Returned(r_trace[i].attempt)

\* func succeeded in its second attempt, attempts being left, after a first
\* attempt that failed, was reported to on_retry and slept on
C24_Witness ==
    /\ r_pc = "returned"
    /\ r_result = Returned(2)
    /\ r_in.retries > 2
    /\ EventsAt("func:raise") # {}
    /\ EventsAt("on_retry") # {}
    /\ EventsAt("time.sleep") # {}

\* C25 -- exhaustion: when every attempt of func raised an exception matching
\* catch_exceptions, retry_operation raises the exception object of the last
\* attempt, and on_retry has been called exactly once after each failed
\* attempt.
C25_Exhaustion ==
    (FuncAlwaysFailed /\ r_attempt > 0) =>
        /\ r_pc = "raised"
        /\ r_result = Raised(r_attempt)
        /\ r_in.on_retry =>
               \A a \in 1..r_attempt :
                   \E i \in EventsAt("on_retry") :
                       /\ r_trace[i].attempt = a
                       /\ i > 1 /\ r_trace[i - 1] = Event("func:raise", a, 0)
                       /\ \A j \in EventsAt("on_retry") :
                              r_trace[j].attempt = a => j = i

\* C26 -- attempt count: with retries = n and a func that always fails, func
\* is retried n times, so it has been invoked n + 1 times when the exception
\* is raised.
C26_AttemptCount ==
    FuncAlwaysFailed =>
        /\ r_pc = "raised"
        /\ Cardinality(EventsAt("func")) = r_in.retries + 1

\* C28 -- zero capacity: with cache_limit = 0 and a supported policy every
\* call (no key is ever cached) fails with the error of evicting from the
\* empty queue, raised before func is invoked; store and queue stay empty, so
\* no call succeeds.
C28_ZeroCapacity ==
    (cache_limit = 0 /\ eviction_policy \in {"LRU", "FIFO"}) =>
        /\ memo = EmptyMemo
        /\ cache_keys = <<>>
        /\ \A k \in AllKeys : invoked[k] = 0
        /\ \A i \in DOMAIN log :
               Hashable(log[i].key) => log[i].out = EmptyPopError

\* C29 -- late policy failure: with a policy name other than LRU and FIFO a
\* miss that finds len(cache_keys) >= cache_limit raises ValueError, func not
\* invoked and the cache unchanged (with cache_limit = 0 that is every call);
\* before such a miss calls behave as under FIFO, so the first call of all,
\* with a positive cache_limit or none, invokes func and returns its value or
\* raises its error; with cache_limit = None ValueError is never raised.
C29_LatePolicyFailure ==
    eviction_policy \notin {"LRU", "FIFO"} =>
        /\ cache_limit = 0 =>
               /\ memo = EmptyMemo /\ cache_keys = <<>>
               /\ \A k \in AllKeys : invoked[k] = 0
               /\ \A i \in DOMAIN log :
                      Hashable(log[i].key) => log[i].out = PolicyError
        /\ (cache_limit # 0 /\ log # <<>> /\ Hashable(log[1].key)) =>
               /\ log[1].out \in {Value(FuncValue(log[1].key)), FuncError}
               /\ invoked[log[1].key] >= 1
        /\ cache_limit = NoLimit =>
               \A i \in DOMAIN log : log[i].out # PolicyError

\* C30 -- unguarded race: with thread_safe false (and no cache limit), two
\* threads calling with the same uncached key whose statements interleave
\* so that both membership tests precede both inserts reach a state in
\* which the wrapped function was invoked twice for the key, the queue holds
\* the key twice and the store holds it once.
C30_UnguardedRace ==
    \A k \in AllKeys :
        ( /\ ~thread_safe
          /\ cache_limit = NoLimit
          /\ Hashable(k)
          /\ log = <<>>
          /\ Cardinality({ t \in Threads :
                              pc[t] = "memoized" /\ KeyOf(call[t]) = k }) = 2 )
        ~> ( /\ invoked[k] = 2
             /\ Cardinality({ i \in DOMAIN cache_keys : cache_keys[i] = k }) = 2
             /\ k \in DOMAIN memo )

=============================================================================
